---- MODULE Spec2Model ----
(***************************************************************************)
(* Model of src/components/Accessibility.tsx: the accessibility widget,    *)
(* its settings record, the localStorage item "accessibilitySettings",     *)
(* the three React effects (load, save, apply) and the panel's handlers.   *)
(*                                                                         *)
(* A state is the component after a committed render.  pc is the position  *)
(* in React's commit cycle: the passive effects of a commit run in         *)
(* declaration order (load, save, apply on mount; save, apply after a      *)
(* change of settings), a state update queued by an effect is rendered     *)
(* after the effects of that commit, and event handlers run between        *)
(* commits (pc = "idle").                                                  *)
(*                                                                         *)
(* Strings that the code builds or converts are sequences of tokens: the   *)
(* filter value is the sequence of its terms and blanks, a JSON text is a  *)
(* function from keys to value tokens.                                     *)
(***************************************************************************)
EXTENDS Integers, Sequences, FiniteSets, TLC

VARIABLES
  settings,        \* useState(defaultSettings): the committed settings record
  isOpen,          \* useState(false): panel open
  isHidden,        \* useState(false): widget shell hidden
  isRemoved,       \* useState(false): widget removed
  localStorage,    \* the item under the key "accessibilitySettings"
  document,        \* inline styles and the guide line of the page
  page,            \* the host page: how many elements of each kind it has
  pc,              \* position in the commit cycle
  event,           \* what caused the effects now running ("none" when idle)
  savedSettings,   \* load effect: const savedSettings = localStorage.getItem(..)
  pendingSettings, \* the setSettings(..) the load effect queued
  errored,         \* an effect of this commit has thrown
  orderModal       \* the OrderModal component of the page, if it has one

vars == <<settings, isOpen, isHidden, isRemoved, localStorage, document, page,
          pc, event, savedSettings, pendingSettings, errored, orderModal>>

(***************************************************************************)
(* Bounds                                                                  *)
(***************************************************************************)
\* largest number of elements of one kind on the host page
MaxElements == 2

(***************************************************************************)
(* The settings record                                                     *)
(***************************************************************************)
BooleanFields ==
  {"highlightLinks", "colorShift", "animationsEnabled", "highContrast",
   "focusEnabled", "cursorEnabled", "imagesVisible", "showPageStructure",
   "guideEnabled"}

StringFields == {"textSize", "spacing", "font"}

AccessibilitySettings ==
  [highlightLinks : BOOLEAN, colorShift : BOOLEAN, animationsEnabled : BOOLEAN,
   highContrast : BOOLEAN, focusEnabled : BOOLEAN, cursorEnabled : BOOLEAN,
   textSize : {"1em", "1.25em"}, spacing : {"normal", "wide"},
   font : {"sans-serif", "serif"}, imagesVisible : BOOLEAN,
   showPageStructure : BOOLEAN, guideEnabled : BOOLEAN]

defaultSettings ==
  [highlightLinks |-> FALSE, colorShift |-> FALSE, animationsEnabled |-> TRUE,
   highContrast |-> FALSE, focusEnabled |-> FALSE, cursorEnabled |-> FALSE,
   textSize |-> "1em", spacing |-> "normal", font |-> "sans-serif",
   imagesVisible |-> TRUE, showPageStructure |-> FALSE, guideEnabled |-> FALSE]

\* JavaScript truthiness of s[key] for a boolean field; a missing field is
\* undefined, which is falsy
Truthy(s, key) == key \in DOMAIN s /\ s[key]

\* !s[key] for a boolean field; !undefined is true
Negated(s, key) == ~Truthy(s, key)

\* { ...prev, [key]: value }
SpreadWith(prev, key, value) ==
  [k \in DOMAIN prev \cup {key} |-> IF k = key THEN value ELSE prev[k]]

(***************************************************************************)
(* JSON.stringify and JSON.parse of a settings object                      *)
(***************************************************************************)
\* the JSON token of one member: true, false, or a quoted string
StringifyValue(key, value) ==
  IF key \in BooleanFields
    THEN IF value THEN <<"true">> ELSE <<"false">>
    ELSE <<"\"", value, "\"">>

\* a parse that takes the text of a string one token too early
ParseValueOffByOne(token) ==
  IF token = <<"true">> THEN TRUE
  ELSE IF token = <<"false">> THEN FALSE
  ELSE token[1]

ParseValue(token) ==
  IF token = <<"true">> THEN TRUE
  ELSE IF token = <<"false">> THEN FALSE
  ELSE token[2]

\* JSON.stringify(settings): the item the save effect writes
Stringify(s) ==
  [kind |-> "object", members |-> [k \in DOMAIN s |-> StringifyValue(k, s[k])]]

\* JSON.parse of an item that holds an object
Parse(item) == [k \in DOMAIN item.members |-> ParseValue(item.members[k])]

\* items that hold no object: no item, "", a text that is not JSON, "null"
Item(kind) == [kind |-> kind, members |-> <<>>]

(***************************************************************************)
(* The host page and its inline styles                                     *)
(***************************************************************************)
\* the elements document.querySelectorAll("*") finds on the host page
Elements(p) ==
  {<<"html", 1>>, <<"body", 1>>}
    \cup ({"landmark"} \X (1..p.landmarks))
    \cup ({"heading"} \X (1..p.headings))
    \cup ({"a"} \X (1..p.links))
    \cup ({"img"} \X (1..p.imgs))

\* a freshly loaded page: no inline style set, no guide line, no panel
FreshDocument(p) ==
  [linkBackground |-> [i \in 1..p.links |-> ""],
   fontSize       |-> "",
   filter         |-> <<>>,
   letterSpacing  |-> "",
   fontFamily     |-> "",
   animation      |-> "",
   outline        |-> [e \in Elements(p) |-> ""],
   panelOutline   |-> <<>>,
   cursor         |-> "",
   imgDisplay     |-> [i \in 1..p.imgs |-> ""],
   guideLine      |-> <<>>]

\* String.prototype.trim on a sequence of tokens
RECURSIVE TrimStart(_)
TrimStart(str) ==
  IF str # <<>> /\ Head(str) = " " THEN TrimStart(Tail(str)) ELSE str

RECURSIVE TrimEnd(_)
TrimEnd(str) ==
  IF str # <<>> /\ str[Len(str)] = " "
    THEN TrimEnd(SubSeq(str, 1, Len(str) - 1))
    ELSE str

Trim(str) == TrimEnd(TrimStart(str))

\* a filter built with else-if: one term at most
FilterValueOneTerm(s) ==
  IF Truthy(s, "highContrast") THEN <<"contrast(2)">>
  ELSE IF Truthy(s, "colorShift") THEN <<"invert(1)">>
  ELSE <<"none">>

\* let filterStr = ""; if (highContrast) filterStr += " contrast(2)";
\* if (colorShift) filterStr += " invert(1)"; filterStr.trim() || "none"
FilterValue(s) ==
  LET f0 == <<>>
      f1 == IF Truthy(s, "highContrast") THEN f0 \o <<" ", "contrast(2)">> ELSE f0
      f2 == IF Truthy(s, "colorShift") THEN f1 \o <<" ", "invert(1)">> ELSE f1
  IN  IF Trim(f2) # <<>> THEN Trim(f2) ELSE <<"none">>

\* htmlEl.style.outline = settings.focusEnabled ? "2px solid #0000FF" : ""
OutlineValue(s) == IF Truthy(s, "focusEnabled") THEN "2px solid #0000FF" ELSE ""

\* a guide line appended without looking for an existing one
GuideLineAppended(s, guideLine) ==
  IF Truthy(s, "guideEnabled")
    THEN Append(guideLine, [outline |-> ""])
    ELSE IF guideLine # <<>> THEN Tail(guideLine) ELSE guideLine

\* the reading guide line: created when enabled and absent, removed when
\* disabled and present; getElementById returns the first element of that id
GuideLineAfter(s, guideLine) ==
  IF Truthy(s, "guideEnabled")
    THEN IF guideLine = <<>>
           THEN Append(guideLine, [outline |-> ""])
           ELSE guideLine
    ELSE IF guideLine # <<>> THEN Tail(guideLine) ELSE guideLine

\* the body of the apply effect: the document after applying s to d.  An
\* assignment of undefined to a style property sets the text "undefined",
\* which is no font size (the declaration stays) and is a font family.
ApplySettings(s, d) ==
  LET outlined(els) == [e \in DOMAIN els |-> OutlineValue(s)]
      outlinedLines(els) == [i \in DOMAIN els |-> [outline |-> OutlineValue(s)]]
  IN  [linkBackground |-> [i \in DOMAIN d.linkBackground |->
                             IF Truthy(s, "highlightLinks") THEN "#FFFF00" ELSE ""],
       fontSize       |-> IF "textSize" \in DOMAIN s THEN s.textSize ELSE d.fontSize,
       filter         |-> FilterValue(s),
       letterSpacing  |-> IF "spacing" \in DOMAIN s /\ s.spacing = "wide"
                            THEN "0.1em" ELSE "normal",
       fontFamily     |-> IF "font" \in DOMAIN s THEN s.font ELSE "undefined",
       animation      |-> IF Truthy(s, "animationsEnabled") THEN "" ELSE "none",
       outline        |-> outlined(d.outline),
       panelOutline   |-> outlined(d.panelOutline),
       cursor         |-> IF Truthy(s, "cursorEnabled") THEN "pointer" ELSE "",
       imgDisplay     |-> [i \in DOMAIN d.imgDisplay |->
                             IF Truthy(s, "imagesVisible") THEN "block" ELSE "none"],
       guideLine      |-> GuideLineAfter(s, outlinedLines(d.guideLine))]

\* the panel's elements are in the document while the panel is rendered;
\* React creates them without an outline
PanelRendered(open, hidden, removed) == open /\ ~hidden /\ ~removed

RenderPanel(d, open, hidden, removed) ==
  [d EXCEPT !.panelOutline =
     IF PanelRendered(open, hidden, removed)
       THEN IF @ = <<>> THEN <<"">> ELSE @
       ELSE <<>>]

(***************************************************************************)
(* Inputs: what the store can hold when a session starts                   *)
(***************************************************************************)
\* valid records a previous session can have saved
ValidInputs ==
  {[defaultSettings EXCEPT !.spacing = sp, !.highContrast = hc,
                           !.focusEnabled = fe, !.guideEnabled = ge,
                           !.showPageStructure = ps] :
     sp \in {"normal", "wide"}, hc \in BOOLEAN, fe \in BOOLEAN,
     ge \in BOOLEAN, ps \in BOOLEAN}

\* an object of another shape: textSize and font missing, spacing out of its
\* domain, one member the record does not have
IncompatibleItem ==
  [kind |-> "object",
   members |-> [k \in (DOMAIN defaultSettings \ {"textSize", "font"}) \cup {"theme"} |->
                  IF k = "theme" THEN <<"\"", "dark", "\"">>
                  ELSE IF k = "spacing" THEN <<"\"", "huge", "\"">>
                  ELSE StringifyValue(k, defaultSettings[k])]]

StoredItems ==
  {Item("absent"), Item("empty"), Item("garbage"), Item("null"), IncompatibleItem}
    \cup {Stringify(S) : S \in ValidInputs}

\* the host page of the sessions of Spec
HostPage ==
  [landmarks |-> MaxElements, headings |-> MaxElements, links |-> MaxElements,
   imgs |-> MaxElements]

\* host pages on which each category is empty or not, independently
Pages ==
  [landmarks : {0, MaxElements}, headings : {0, MaxElements},
   links : {0, MaxElements}, imgs : {MaxElements}]

NoUpdate == [kind |-> "none", value |-> <<>>]

(***************************************************************************)
(* src/components/OrderModal.tsx: the promotional modal                    *)
(***************************************************************************)
\* document.getElementById("__next")
AppElements == {"present", "absent"}

\* a page without the OrderModal
NoOrderModal ==
  [pc |-> "absent", isOpen |-> FALSE, appElement |-> "absent",
   appElementSet |-> FALSE, warnings |-> <<>>, alerted |-> ""]

\* useState(true): the modal after its first render, the mount effect to run
FirstRender(appElement) ==
  [pc |-> "effect", isOpen |-> TRUE, appElement |-> appElement,
   appElementSet |-> FALSE, warnings |-> <<>>, alerted |-> ""]

\* the accessibility widget is not touched by the modal
WidgetUnchanged ==
  UNCHANGED <<settings, isOpen, isHidden, isRemoved, localStorage, document,
              page, pc, event, savedSettings, pendingSettings, errored>>

\* a mount effect that gives up without the application element
OrderModalEffectClosing ==
  /\ orderModal.pc = "effect"
  /\ orderModal' =
       IF orderModal.appElement = "present"
         THEN [orderModal EXCEPT !.pc = "idle", !.appElementSet = TRUE]
         ELSE [orderModal EXCEPT !.pc = "idle", !.isOpen = FALSE,
                 !.warnings = Append(@, "App element with id '__next' not found.")]
  /\ WidgetUnchanged

\* useEffect(() => { const appElement = document.getElementById("__next");
\*   if (appElement) Modal.setAppElement(appElement);
\*   else console.warn(..); }, [])
OrderModalEffect ==
  /\ orderModal.pc = "effect"
  /\ orderModal' =
       IF orderModal.appElement = "present"
         THEN [orderModal EXCEPT !.pc = "idle", !.appElementSet = TRUE]
         ELSE [orderModal EXCEPT !.pc = "idle",
                 !.warnings = Append(@, "App element with id '__next' not found.")]
  /\ WidgetUnchanged

\* the children of <Modal isOpen={isOpen}> are rendered while it is open
ModalRendered == orderModal.pc = "idle" /\ orderModal.isOpen

\* function closeModal() { setIsOpen(false); }
closeModal ==
  /\ orderModal' = [orderModal EXCEPT !.isOpen = FALSE]
  /\ WidgetUnchanged

\* the close button: onClick={closeModal}
ClickModalClose == ModalRendered /\ closeModal

\* Escape or a click on the overlay: onRequestClose={closeModal}
RequestModalClose == ModalRendered /\ closeModal

\* onClick={() => alert("Order Delivery Clicked")}
ClickOrderDelivery ==
  /\ ModalRendered
  /\ orderModal' = [orderModal EXCEPT !.alerted = "Order Delivery Clicked"]
  /\ WidgetUnchanged

\* onClick={() => alert("Order Pickup Clicked")}
ClickOrderPickup ==
  /\ ModalRendered
  /\ orderModal' = [orderModal EXCEPT !.alerted = "Order Pickup Clicked"]
  /\ WidgetUnchanged

(***************************************************************************)
(* Mount: the first render and its effects                                 *)
(***************************************************************************)
\* the state after the first render of a session whose store holds item
Mounted(item, p) ==
  /\ settings = defaultSettings
  /\ isOpen = FALSE
  /\ isHidden = FALSE
  /\ isRemoved = FALSE
  /\ localStorage = item
  /\ document = FreshDocument(p)
  /\ page = p
  /\ pc = "load"
  /\ event = "mount"
  /\ savedSettings = Item("unread")
  /\ pendingSettings = NoUpdate
  /\ errored = FALSE

Init == (\E item \in StoredItems : Mounted(item, HostPage)) /\ orderModal = NoOrderModal

\* sessions that start with an empty store, on any of the pages
InitPages == (\E p \in Pages : Mounted(Item("absent"), p)) /\ orderModal = NoOrderModal

\* sessions of a page that has the OrderModal too, with or without the
\* element of id "__next", starting with an empty store
InitOrderModal ==
  /\ Mounted(Item("absent"), HostPage)
  /\ \E appElement \in AppElements : orderModal = FirstRender(appElement)

\* useEffect(() => { const savedSettings = localStorage.getItem(..);
\*   if (savedSettings) setSettings(JSON.parse(savedSettings)); }, [])
\* JSON.parse throws on a text that is not JSON.  Whether the later effects
\* of the commit still run after an effect has thrown depends on the React
\* version; the component is unmounted in both cases.
LoadEffect ==
  /\ pc = "load"
  /\ savedSettings' = localStorage
  /\ CASE localStorage.kind \in {"absent", "empty"} ->
            /\ pendingSettings' = NoUpdate
            /\ pc' = "save"
            /\ UNCHANGED errored
       [] localStorage.kind = "object" ->
            /\ pendingSettings' = [kind |-> "object", value |-> Parse(localStorage)]
            /\ pc' = "save"
            /\ UNCHANGED errored
       [] localStorage.kind = "null" ->
            /\ pendingSettings' = [kind |-> "null", value |-> <<>>]
            /\ pc' = "save"
            /\ UNCHANGED errored
       [] localStorage.kind = "garbage" ->
            /\ pendingSettings' = NoUpdate
            /\ errored' = TRUE
            /\ pc' \in {"save", "crashed"}
  /\ UNCHANGED <<orderModal, settings, isOpen, isHidden, isRemoved, localStorage, document,
                 page, event>>

\* a save effect with an empty dependency list: it writes on mount only
SaveEffectOnMountOnly ==
  /\ pc = "save"
  /\ localStorage' = IF event = "mount" THEN Stringify(settings) ELSE localStorage
  /\ pc' = "apply"
  /\ UNCHANGED <<orderModal, settings, isOpen, isHidden, isRemoved, document, page, event,
                 savedSettings, pendingSettings, errored>>

\* useEffect(() => { localStorage.setItem(.., JSON.stringify(settings)); },
\*   [settings])
SaveEffect ==
  /\ pc = "save"
  /\ localStorage' = Stringify(settings)
  /\ pc' = "apply"
  /\ UNCHANGED <<orderModal, settings, isOpen, isHidden, isRemoved, document, page, event,
                 savedSettings, pendingSettings, errored>>

\* useEffect(() => { ..apply settings to the DOM.. }, [settings]); the last
\* effect of a commit: afterwards React renders the update the load effect
\* queued, or unmounts the component if an effect threw, or is idle
ApplyEffect ==
  /\ pc = "apply"
  /\ document' = ApplySettings(settings, document)
  /\ pc' = IF errored THEN "crashed"
           ELSE IF pendingSettings.kind # "none" THEN "render"
           ELSE "idle"
  /\ event' = IF pc' = "idle" THEN "none" ELSE event
  /\ savedSettings' = IF pc' = "idle" THEN Item("unread") ELSE savedSettings
  /\ UNCHANGED <<orderModal, settings, isOpen, isHidden, isRemoved, localStorage, page,
                 pendingSettings, errored>>

\* the render of the queued setSettings(JSON.parse(savedSettings)); with
\* settings null the render throws at settings.showPageStructure
Render ==
  /\ pc = "render"
  /\ IF pendingSettings.kind = "null"
       THEN /\ errored' = TRUE
            /\ pc' = "crashed"
            /\ UNCHANGED <<settings, pendingSettings>>
       ELSE /\ settings' = pendingSettings.value
            /\ pendingSettings' = NoUpdate
            /\ pc' = "save"
            /\ UNCHANGED errored
  /\ UNCHANGED <<orderModal, isOpen, isHidden, isRemoved, localStorage, document, page,
                 event, savedSettings>>

\* the session ends (at any point) and the page is loaded again: the store
\* is all that is kept
Reload ==
  /\ settings' = defaultSettings
  /\ isOpen' = FALSE
  /\ isHidden' = FALSE
  /\ isRemoved' = FALSE
  /\ document' = FreshDocument(page)
  /\ pc' = "load"
  /\ event' = "mount"
  /\ savedSettings' = Item("unread")
  /\ pendingSettings' = NoUpdate
  /\ errored' = FALSE
  /\ orderModal' = IF orderModal.pc = "absent"
                     THEN orderModal
                     ELSE FirstRender(orderModal.appElement)
  /\ UNCHANGED <<localStorage, page>>

(***************************************************************************)
(* The widget shell: buttons that change isOpen, isHidden, isRemoved.      *)
(* These renders change no dependency of an effect, so no effect runs.     *)
(***************************************************************************)
\* a component that forgets the isRemoved early return
InteractiveWhenRemoved == pc = "idle"

\* the component accepts an event: it is mounted, idle and not removed
Interactive == pc = "idle" /\ ~isRemoved

\* a shell click after which the effects run again
ShellBecomesWithEffects(open, hidden, removed) ==
  /\ isOpen' = open
  /\ isHidden' = hidden
  /\ isRemoved' = removed
  /\ document' = RenderPanel(document, open, hidden, removed)
  /\ pc' = "save"
  /\ UNCHANGED <<orderModal, settings, localStorage, page, event, savedSettings,
                 pendingSettings, errored>>

\* the shell state after a click and the panel elements of the new render
ShellBecomes(open, hidden, removed) ==
  /\ isOpen' = open
  /\ isHidden' = hidden
  /\ isRemoved' = removed
  /\ document' = RenderPanel(document, open, hidden, removed)
  /\ UNCHANGED <<orderModal, settings, localStorage, page, pc, event, savedSettings,
                 pendingSettings, errored>>

\* Toggle Button: onClick={() => setIsOpen(!isOpen)}
TogglePanel ==
  /\ Interactive /\ ~isHidden
  /\ ShellBecomes(~isOpen, isHidden, isRemoved)

\* Close: onClick={() => setIsOpen(false)}
ClosePanel ==
  /\ Interactive /\ PanelRendered(isOpen, isHidden, isRemoved)
  /\ ShellBecomes(FALSE, isHidden, isRemoved)

\* Hide: onClick={() => setIsHidden(true)}
HideWidget ==
  /\ Interactive /\ PanelRendered(isOpen, isHidden, isRemoved)
  /\ ShellBecomes(isOpen, TRUE, isRemoved)

\* Show Widget: onClick={() => setIsHidden(false)}
ShowWidget ==
  /\ Interactive /\ isHidden
  /\ ShellBecomes(isOpen, FALSE, isRemoved)

\* Remove: onClick={() => setIsRemoved(true)}
RemoveWidget ==
  /\ Interactive /\ PanelRendered(isOpen, isHidden, isRemoved)
  /\ ShellBecomes(isOpen, isHidden, TRUE)

(***************************************************************************)
(* Handlers that change the settings record.  setSettings gets a new       *)
(* object, so the render that follows has the save and apply effects to    *)
(* run.                                                                    *)
(***************************************************************************)
\* a render after which the apply effect runs first and nothing is saved
SettingsBecomeApplyFirst(next, cause) ==
  /\ settings' = next
  /\ pc' = "apply"
  /\ event' = cause
  /\ UNCHANGED <<orderModal, isOpen, isHidden, isRemoved, localStorage, document, page,
                 savedSettings, pendingSettings, errored>>

SettingsBecome(next, cause) ==
  /\ settings' = next
  /\ pc' = "save"
  /\ event' = cause
  /\ UNCHANGED <<orderModal, isOpen, isHidden, isRemoved, localStorage, document, page,
                 savedSettings, pendingSettings, errored>>

\* a handler that spreads the record of the first render instead of prev:
\* setSettings({ ...defaultSettings, [key]: value })
handleSettingChangeStale(key, value) ==
  SettingsBecome(SpreadWith(defaultSettings, key, value), "handleSettingChange")

\* setSettings((prev) => ({ ...prev, [key]: value }))
handleSettingChange(key, value) ==
  SettingsBecome(SpreadWith(settings, key, value), "handleSettingChange")

\* a handler that opens the dialog and never closes it
togglePageStructureOpenOnly ==
  SettingsBecome(SpreadWith(settings, "showPageStructure", TRUE),
                 "togglePageStructure")

\* setSettings((prev) => ({ ...prev, showPageStructure: !prev.showPageStructure }))
togglePageStructure ==
  SettingsBecome(SpreadWith(settings, "showPageStructure",
                            Negated(settings, "showPageStructure")),
                 "togglePageStructure")

\* a reset that merges the defaults under the current record:
\* setSettings((prev) => ({ ...defaultSettings, ...prev, showPageStructure: false }))
resetSettingsMerged ==
  SettingsBecome(
    [k \in DOMAIN defaultSettings \cup DOMAIN settings |->
       IF k = "showPageStructure" THEN FALSE
       ELSE IF k \in DOMAIN settings THEN settings[k]
       ELSE defaultSettings[k]],
    "resetSettings")

\* setSettings(defaultSettings)
resetSettings == SettingsBecome(defaultSettings, "resetSettings")

PanelClick == Interactive /\ PanelRendered(isOpen, isHidden, isRemoved)

ClickFocus ==
  PanelClick /\ handleSettingChange("focusEnabled", Negated(settings, "focusEnabled"))

ClickCursor ==
  PanelClick /\ handleSettingChange("cursorEnabled", Negated(settings, "cursorEnabled"))

ClickHighlightLinks ==
  PanelClick /\ handleSettingChange("highlightLinks", Negated(settings, "highlightLinks"))

ClickHighContrast ==
  PanelClick /\ handleSettingChange("highContrast", Negated(settings, "highContrast"))

ClickColorShift ==
  PanelClick /\ handleSettingChange("colorShift", Negated(settings, "colorShift"))

ClickAnimations ==
  PanelClick /\ handleSettingChange("animationsEnabled",
                                    Negated(settings, "animationsEnabled"))

ClickBiggerText == PanelClick /\ handleSettingChange("textSize", "1.25em")

\* a Normal Text button wired to the wrong field
ClickNormalTextAsSpacing == PanelClick /\ handleSettingChange("spacing", "wide")

ClickNormalText == PanelClick /\ handleSettingChange("textSize", "1em")

\* a font button that toggles between the two families
ClickSerifFontsToggle ==
  PanelClick /\ handleSettingChange("font",
                  IF "font" \in DOMAIN settings /\ settings.font = "serif"
                    THEN "sans-serif" ELSE "serif")

ClickSerifFonts == PanelClick /\ handleSettingChange("font", "serif")

ClickImages ==
  PanelClick /\ handleSettingChange("imagesVisible", Negated(settings, "imagesVisible"))

ClickReadingLine ==
  PanelClick /\ handleSettingChange("guideEnabled", Negated(settings, "guideEnabled"))

\* the panel's Page Structure button
ClickPageStructure == PanelClick /\ togglePageStructure

\* the dialog's Close button; the dialog is rendered whenever
\* settings.showPageStructure is truthy and the widget is not removed
ClickClosePageStructure ==
  /\ Interactive /\ Truthy(settings, "showPageStructure")
  /\ togglePageStructure

ClickReset == PanelClick /\ resetSettings

(***************************************************************************)
(* The page structure dialog                                               *)
(***************************************************************************)
\* sections nested under the landmarks condition
renderPageStructureNested(p) ==
  LET section(title, tag, n) ==
        IF n > 0 /\ p.landmarks > 0
          THEN <<[title |-> title, entries |-> [i \in 1..n |-> <<tag, i>>]]>>
          ELSE <<>>
  IN  section("Landmarks", "landmark", p.landmarks)
        \o section("Headings", "heading", p.headings)
        \o section("Links", "a", p.links)

\* one section per category that has elements, one entry per element
renderPageStructure(p) ==
  LET section(title, tag, n) ==
        IF n > 0
          THEN <<[title |-> title, entries |-> [i \in 1..n |-> <<tag, i>>]]>>
          ELSE <<>>
  IN  section("Landmarks", "landmark", p.landmarks)
        \o section("Headings", "heading", p.headings)
        \o section("Links", "a", p.links)

\* {settings.showPageStructure && (<div role="dialog"> .. )} below the
\* isRemoved early return
PageStructureDialog ==
  IF ~isRemoved /\ pc \notin {"crashed"} /\ Truthy(settings, "showPageStructure")
    THEN [open |-> TRUE, sections |-> renderPageStructure(page)]
    ELSE [open |-> FALSE, sections |-> <<>>]

Next ==
  \/ LoadEffect
  \/ SaveEffect
  \/ ApplyEffect
  \/ Render
  \/ Reload
  \/ TogglePanel
  \/ ClosePanel
  \/ HideWidget
  \/ ShowWidget
  \/ RemoveWidget
  \/ ClickFocus
  \/ ClickCursor
  \/ ClickHighlightLinks
  \/ ClickHighContrast
  \/ ClickColorShift
  \/ ClickAnimations
  \/ ClickBiggerText
  \/ ClickNormalText
  \/ ClickSerifFonts
  \/ ClickImages
  \/ ClickReadingLine
  \/ ClickPageStructure
  \/ ClickClosePageStructure
  \/ ClickReset

Spec == Init /\ [][Next]_vars

SpecPages == InitPages /\ [][Next]_vars

\* the page with both components
NextOrderModal ==
  \/ Next
  \/ OrderModalEffect
  \/ ClickModalClose
  \/ RequestModalClose
  \/ ClickOrderDelivery
  \/ ClickOrderPickup

SpecOrderModal == InitOrderModal /\ [][NextOrderModal]_vars

(***************************************************************************)
(* What the specification documents, stated without the code's own         *)
(* definitions                                                             *)
(***************************************************************************)
\* all booleans false except animationsEnabled and imagesVisible, textSize
\* normal, spacing normal, font sans-serif
IsDocumentedDefault(s) ==
  /\ DOMAIN s = BooleanFields \cup StringFields
  /\ \A k \in BooleanFields : s[k] = (k \in {"animationsEnabled", "imagesVisible"})
  /\ s.textSize = "1em"
  /\ s.spacing = "normal"
  /\ s.font = "sans-serif"

\* the items that hold a valid settings record
ValidItems == {Stringify(S) : S \in AccessibilitySettings}

\* the mount's effects have all run and no queued update is left to render
MountSettled == event = "mount" /\ pc = "apply" /\ pendingSettings.kind = "none"

(***************************************************************************)
(* C1  Fallback on load.  When the component mounts and the item is absent *)
(* or does not deserialize, no error escapes the mount and the in-memory   *)
(* record is the documented default record.                                *)
(* The code calls JSON.parse without a try: the load effect throws.        *)
(***************************************************************************)
C1_FallbackOnLoad ==
  savedSettings.kind \in {"absent", "garbage"} =>
    /\ ~errored
    /\ pc # "crashed"
    /\ IsDocumentedDefault(settings)

(***************************************************************************)
(* C2  Round trip across sessions.  When the item the load effect read is  *)
(* the serialization of a valid record S, the mount ends with the          *)
(* in-memory record equal to S in all twelve fields: it is a valid record  *)
(* and it is the one valid record whose serialization is that item.        *)
(***************************************************************************)
C2_RoundTrip ==
  [][(event = "mount" /\ pc' = "idle" /\ savedSettings \in ValidItems) =>
       /\ settings' \in AccessibilitySettings
       /\ \A k \in DOMAIN settings' :
            savedSettings.members[k] = StringifyValue(k, settings'[k])]_vars

\* a mount that loaded a valid record other than the default has settled
C2_Witness ==
  /\ MountSettled
  /\ savedSettings \in ValidItems
  /\ ~IsDocumentedDefault(settings)
  /\ settings.spacing = "wide"
  /\ localStorage = savedSettings

(***************************************************************************)
(* C3  Reset.  Reset leaves every field of the in-memory record at its     *)
(* documented default, and when the effects it triggered have run the      *)
(* stored record is that default record too.                               *)
(***************************************************************************)
C3_Reset ==
  [][event = "resetSettings" =>
       /\ IsDocumentedDefault(settings)
       /\ pc' = "idle" =>
            /\ IsDocumentedDefault(settings')
            /\ localStorage'.kind = "object"
            /\ IsDocumentedDefault(Parse(localStorage'))]_vars

\* reset was invoked after mutations (the page still shows their effects)
\* and its save effect has run
C3_Witness ==
  /\ event = "resetSettings"
  /\ pc = "apply"
  /\ document.filter = <<"contrast(2)", " ", "invert(1)">>
  /\ document.fontFamily = "serif"
  /\ Len(document.guideLine) = 1
  /\ IsDocumentedDefault(Parse(localStorage))

(***************************************************************************)
(* C4  Fully populated.  In every reachable state the in-memory record has *)
(* one value within its declared domain for each of the twelve fields,     *)
(* also after mounting with a stored object of an incompatible shape.      *)
(* The code stores whatever JSON.parse returns.                            *)
(***************************************************************************)
C4_FullyPopulated == settings \in AccessibilitySettings

(***************************************************************************)
(* C5  Idempotent application.  Running the apply step with the same       *)
(* record twice in a row yields the same document as running it once.      *)
(* The code sets the outline of every element before it creates the guide  *)
(* line, so the second run outlines the guide line the first created.      *)
(***************************************************************************)
C5_IdempotentApply ==
  ApplySettings(settings, ApplySettings(settings, document))
    = ApplySettings(settings, document)

(***************************************************************************)
(* C6  Reading guide line count.  The page never holds more than one guide *)
(* line, and when the effects of a change have run it holds one if         *)
(* guideEnabled is true and none otherwise.                                *)
(***************************************************************************)
C6_GuideLineCount ==
  /\ Len(document.guideLine) <= 1
  /\ pc = "idle" =>
       Len(document.guideLine) = IF Truthy(settings, "guideEnabled") THEN 1 ELSE 0

\* the guide is on, was applied again for another setting (the line has
\* the focus outline) and there is still one line
C6_Witness ==
  /\ pc = "idle"
  /\ Truthy(settings, "guideEnabled")
  /\ Len(document.guideLine) = 1
  /\ document.guideLine[1].outline # ""

(***************************************************************************)
(* C7  Filter composition.  When the effects have run, the root filter is  *)
(* determined by the current highContrast and colorShift alone: the        *)
(* contrast term, the invert term, both, or "none".                        *)
(***************************************************************************)
C7_FilterComposition ==
  pc = "idle" =>
    document.filter =
      CASE Truthy(settings, "highContrast") /\ ~Truthy(settings, "colorShift") ->
             <<"contrast(2)">>
        [] ~Truthy(settings, "highContrast") /\ Truthy(settings, "colorShift") ->
             <<"invert(1)">>
        [] Truthy(settings, "highContrast") /\ Truthy(settings, "colorShift") ->
             <<"contrast(2)", " ", "invert(1)">>
        [] OTHER -> <<"none">>

\* the panel is in use, colorShift was switched on and highContrast is
\* off: only the invert term is in the filter
C7_Witness ==
  /\ pc = "idle"
  /\ isOpen
  /\ ~Truthy(settings, "highContrast")
  /\ Truthy(settings, "colorShift")
  /\ document.filter = <<"invert(1)">>

(***************************************************************************)
(* C8  Page structure sections.  Whenever the dialog is rendered, each of  *)
(* the three sections is rendered if and only if the page has an element   *)
(* of its category, independently of the other two, with one entry per     *)
(* element.  Amended frame: opening the dialog changes no field of the     *)
(* record other than showPageStructure; the click itself changes neither   *)
(* the store nor the page; the effects it triggers write the record to the *)
(* store, which changes the stored showPageStructure only, and re-apply    *)
(* the styles, which changes at most the outline of the panel's elements   *)
(* and of the guide line.                                                  *)
(***************************************************************************)
C8_SectionsRendered ==
  LET secs == PageStructureDialog.sections
      titles == {secs[i].title : i \in DOMAIN secs}
      count(title) == CASE title = "Landmarks" -> page.landmarks
                        [] title = "Headings" -> page.headings
                        [] title = "Links" -> page.links
  IN  /\ titles \subseteq {"Landmarks", "Headings", "Links"}
      /\ Cardinality(titles) = Len(secs)
      /\ "Landmarks" \in titles <=> page.landmarks > 0
      /\ "Headings" \in titles <=> page.headings > 0
      /\ "Links" \in titles <=> page.links > 0
      /\ \A i \in DOMAIN secs :
           /\ Len(secs[i].entries) = count(secs[i].title)
           /\ Cardinality({secs[i].entries[j] : j \in DOMAIN secs[i].entries})
                = count(secs[i].title)

\* the click that opens the dialog
C8_OpeningClick ==
  /\ pc = "idle"
  /\ event' = "togglePageStructure"
  /\ Truthy(settings', "showPageStructure")

\* a step of the effects that the opening click triggered
C8_OpeningEffect ==
  /\ event = "togglePageStructure"
  /\ Truthy(settings, "showPageStructure")
  /\ event' # "mount"

C8_OtherFieldsKept ==
  /\ DOMAIN settings' = DOMAIN settings \cup {"showPageStructure"}
  /\ \A k \in DOMAIN settings' \ {"showPageStructure"} :
       k \in DOMAIN settings /\ settings'[k] = settings[k]

C9_StoredSurvivesMount ==
  (/\ event = "mount"
   /\ savedSettings \in ValidItems
   /\ ~IsDocumentedDefault(Parse(savedSettings))) =>
     localStorage = savedSettings

(***************************************************************************)
(* C10  Persist on every mutation.  When an action that changed the        *)
(* record and the effects it triggered have run, the stored record equals  *)
(* the in-memory record in every field.                                    *)
(***************************************************************************)
C10_PersistOnEveryMutation ==
  pc = "idle" =>
    /\ localStorage.kind = "object"
    /\ DOMAIN localStorage.members = DOMAIN settings
    /\ \A k \in DOMAIN settings : ParseValue(localStorage.members[k]) = settings[k]

\* controls of the panel have changed the record (no input has a serif
\* font or a larger text) and the store holds the changed record
C10_Witness ==
  /\ pc = "idle"
  /\ isOpen
  /\ "font" \in DOMAIN settings /\ settings.font = "serif"
  /\ "textSize" \in DOMAIN settings /\ settings.textSize = "1.25em"
  /\ Truthy(settings, "showPageStructure")
  /\ Parse(localStorage) = settings

(***************************************************************************)
(* C11  Effect ordering.  A storage write is a write of the record that is *)
(* in memory at that time (it comes after the mutation), and whenever the  *)
(* styles of the page are set within a session, the store already holds    *)
(* the record they are set from: the page never reflects a record that     *)
(* has not been written.                                                   *)
(***************************************************************************)
C11_EffectOrdering ==
  [][/\ localStorage' # localStorage =>
          /\ settings' = settings
          /\ localStorage'.kind = "object"
          /\ Parse(localStorage') = settings
          /\ pc' = "apply"
     /\ (document' # document /\ pc' # "load") =>
          /\ localStorage.kind = "object"
          /\ Parse(localStorage) = settings
          /\ localStorage' = localStorage]_vars

\* a control changed the record, the save effect has written it, and the
\* page still shows the filter of the record before
C11_Witness ==
  /\ pc = "apply"
  /\ event = "handleSettingChange"
  /\ Parse(localStorage) = settings
  /\ document.filter # FilterValue(settings)

(***************************************************************************)
(* C12  Page structure dialog state machine.  As stated: the dialog        *)
(* changes between open and closed only through its own toggle action,     *)
(* each invocation flipping it.  The code also closes it on reset          *)
(* (showPageStructure is a field of the record), opens it when a mount     *)
(* loads a stored record with showPageStructure true, and takes it off the *)
(* page when the widget is removed.  Amended: the toggle action flips it,  *)
(* and besides the toggle only reset (closes), the render of a loaded      *)
(* record (opens), removal of the widget (closes) and the end of the       *)
(* session change it; no other setting control and none of panel open,     *)
(* close, hide and show does.                                              *)
(***************************************************************************)
C12_DialogOpen == PageStructureDialog.open

\* the handler togglePageStructure runs in this step
C12_ToggleStep == pc = "idle" /\ event' = "togglePageStructure"

C12_DialogStateMachine ==
  [][/\ C12_ToggleStep => (C12_DialogOpen' = ~C12_DialogOpen)
     /\ C12_DialogOpen' # C12_DialogOpen =>
          \/ C12_ToggleStep
          \/ pc = "idle" /\ event' = "resetSettings" /\ ~C12_DialogOpen'
          \/ pc = "render" /\ event = "mount" /\ C12_DialogOpen'
          \/ ~isRemoved /\ isRemoved' /\ pc' = "idle" /\ ~C12_DialogOpen'
          \/ pc' = "load" /\ ~C12_DialogOpen']_vars

\* the claim as stated: within a session nothing but the toggle action
\* changes whether the dialog is open
C12_OnlyToggleChangesDialog ==
  [][/\ C12_ToggleStep => (C12_DialogOpen' = ~C12_DialogOpen)
     /\ (C12_DialogOpen' # C12_DialogOpen /\ pc' # "load") => C12_ToggleStep]_vars

\* the dialog has just been closed by its own Close button (the panel,
\* which has the other toggle button, is closed)
C12_Witness ==
  /\ event = "togglePageStructure"
  /\ pc = "save"
  /\ ~isOpen
  /\ ~C12_DialogOpen

(***************************************************************************)
(* C13  Single-field mutation.  Each per-setting control of the panel      *)
(* changes at most the field it names and leaves every other field of the  *)
(* record as it was; only reset and the mount-time load replace more than  *)
(* one field.                                                              *)
(***************************************************************************)
\* the fields in which the record after the step differs from the one before
C13_Changed ==
  {k \in DOMAIN settings \cup DOMAIN settings' :
     \/ k \notin DOMAIN settings
     \/ k \notin DOMAIN settings'
     \/ settings'[k] # settings[k]}

C13_SingleFieldMutation ==
  [][/\ ClickFocus => C13_Changed \subseteq {"focusEnabled"}
     /\ ClickCursor => C13_Changed \subseteq {"cursorEnabled"}
     /\ ClickHighlightLinks => C13_Changed \subseteq {"highlightLinks"}
     /\ ClickHighContrast => C13_Changed \subseteq {"highContrast"}
     /\ ClickColorShift => C13_Changed \subseteq {"colorShift"}
     /\ ClickAnimations => C13_Changed \subseteq {"animationsEnabled"}
     /\ ClickBiggerText => C13_Changed \subseteq {"textSize"}
     /\ ClickNormalText => C13_Changed \subseteq {"textSize"}
     /\ ClickSerifFonts => C13_Changed \subseteq {"font"}
     /\ ClickImages => C13_Changed \subseteq {"imagesVisible"}
     /\ ClickReadingLine => C13_Changed \subseteq {"guideEnabled"}
     /\ ClickPageStructure => C13_Changed \subseteq {"showPageStructure"}
     /\ Cardinality(C13_Changed) > 1 =>
          \/ pc = "idle" /\ event' = "resetSettings"
          \/ pc = "render" /\ event = "mount"
          \/ pc' = "load"]_vars

\* several controls have been activated one after the other: the record
\* differs from the default in fields that no input sets, and spacing is
\* still the loaded one
C13_Witness ==
  /\ event = "handleSettingChange"
  /\ pc = "save"
  /\ settings \in AccessibilitySettings
  /\ settings.cursorEnabled /\ settings.highlightLinks /\ ~settings.imagesVisible
  /\ settings.textSize = "1.25em" /\ settings.font = "serif"
  /\ settings.spacing = "wide"

(***************************************************************************)
(* C14  Shell visibility is independent of settings.  Panel open, close,   *)
(* hide, show and remove leave the in-memory record, the stored record and *)
(* the styles applied to the page unchanged and start no effect, so they   *)
(* cause no storage write; the stored record never has a member for the    *)
(* panel-open, hidden or removed flag; a fresh mount starts with all three *)
(* false.                                                                  *)
(***************************************************************************)
C14_ShellStep ==
  /\ <<isOpen, isHidden, isRemoved>>' # <<isOpen, isHidden, isRemoved>>
  /\ pc' # "load"

C14_ShellIndependent ==
  /\ [](localStorage.kind = "object" =>
          DOMAIN localStorage.members \cap {"isOpen", "isHidden", "isRemoved"} = {})
  /\ [](pc = "load" => ~isOpen /\ ~isHidden /\ ~isRemoved)
  /\ [][C14_ShellStep =>
          /\ settings' = settings
          /\ localStorage' = localStorage
          /\ [document' EXCEPT !.panelOutline = document.panelOutline] = document
          /\ pc = "idle" /\ pc' = "idle"
          /\ event' = event]_vars

\* the widget was opened and hidden while settings are in effect, and the
\* record, the store and the styles are those of the settings
C14_Witness ==
  /\ pc = "idle"
  /\ isHidden /\ isOpen
  /\ Truthy(settings, "highContrast") /\ Truthy(settings, "cursorEnabled")
  /\ document.filter = <<"contrast(2)">>
  /\ document.cursor = "pointer"
  /\ Parse(localStorage) = settings

(***************************************************************************)
(* C15  History independence of the page effects.  When the effects of the *)
(* last change have run, the styles of the page are the ones the current   *)
(* record dictates, whatever the sequence of operations before: every      *)
(* element that is on the page, the guide line and the panel's elements    *)
(* included, has the outline of the current focusEnabled, and applying the *)
(* current record once more would change nothing.                          *)
(* The code outlines the elements that exist when the apply effect runs:   *)
(* a guide line created by that run, and panel elements rendered after it, *)
(* keep no outline until some later change of the record.                  *)
(***************************************************************************)
C15_HistoryIndependent ==
  pc = "idle" => document = ApplySettings(settings, document)

(***************************************************************************)
(* C16  Spacing is latent.  No step produces a wide spacing: from a state  *)
(* in which the record, the store and the root letter-spacing are normal   *)
(* (such as the start with an empty store) every step leads to such a      *)
(* state.  When a stored record with spacing "wide" was loaded, the        *)
(* letter-spacing is 0.1em once applied and only reset changes the field   *)
(* within the session, to "normal".  An inline letter-spacing that was     *)
(* never set counts as normal, the initial value of the property.          *)
(***************************************************************************)
C16_SpacingOf(s) == IF "spacing" \in DOMAIN s THEN s.spacing ELSE "undefined"

C16_StoredSpacingNormal(item) ==
  item.kind = "object" => item.members["spacing"] = <<"\"", "normal", "\"">>

C16_AllNormal ==
  /\ C16_SpacingOf(settings) = "normal"
  /\ C16_StoredSpacingNormal(localStorage)
  /\ pendingSettings.kind = "object" => C16_SpacingOf(pendingSettings.value) = "normal"
  /\ document.letterSpacing \in {"", "normal"}

C16_SpacingLatent ==
  /\ [](pc = "idle" =>
          document.letterSpacing =
            IF C16_SpacingOf(settings) = "wide" THEN "0.1em" ELSE "normal")
  /\ [][/\ C16_AllNormal => C16_AllNormal'
        /\ (C16_SpacingOf(settings') # C16_SpacingOf(settings) /\ pc' # "load") =>
             \/ pc = "idle" /\ event' = "resetSettings"
                  /\ C16_SpacingOf(settings') = "normal"
             \/ pc = "render" /\ event = "mount"]_vars

\* a record with wide spacing was loaded and controls of the panel have
\* been used since: spacing is still wide and applied
C16_Witness ==
  /\ pc = "idle"
  /\ isOpen
  /\ settings \in AccessibilitySettings
  /\ settings.spacing = "wide"
  /\ settings.font = "serif" /\ settings.textSize = "1.25em"
  /\ document.letterSpacing = "0.1em"

(***************************************************************************)
(* C18  Removal is absorbing.  Once the widget is removed, nothing within  *)
(* the session clears the flag or changes the shell, the in-memory record, *)
(* the stored record or the styles of the page: they stay as they were at  *)
(* the moment of removal, and no effect is left to run.                    *)
(***************************************************************************)
C18_RemovalAbsorbing ==
  /\ [](isRemoved => pc = "idle")
  /\ [][(isRemoved /\ pc' # "load") =>
          /\ isRemoved'
          /\ <<isOpen, isHidden>>' = <<isOpen, isHidden>>
          /\ settings' = settings
          /\ localStorage' = localStorage
          /\ document' = document
          /\ pc' = pc]_vars

\* the widget was removed while a filter, the guide line and the page
\* structure dialog were on
C18_Witness ==
  /\ isRemoved
  /\ Truthy(settings, "showPageStructure")
  /\ document.filter = <<"invert(1)">>
  /\ Len(document.guideLine) = 1
  /\ Parse(localStorage) = settings

(***************************************************************************)
(* C19  Font selection is one-way.  The font control sets font to "serif", *)
(* also when it is "serif" already; within a session only reset takes the  *)
(* font from "serif" to another value; a serif font that the effects have  *)
(* handled is in the store, and a mount that reads a stored serif font     *)
(* ends with font "serif".                                                 *)
(***************************************************************************)
C19_FontOf(s) == IF "font" \in DOMAIN s THEN s.font ELSE "undefined"

C19_FontOneWay ==
  /\ [](pc = "idle" /\ C19_FontOf(settings) = "serif" =>
          /\ localStorage.kind = "object"
          /\ C19_FontOf(Parse(localStorage)) = "serif"
          /\ document.fontFamily = "serif")
  /\ [][/\ ClickSerifFonts => C19_FontOf(settings') = "serif"
        /\ (C19_FontOf(settings) = "serif" /\ C19_FontOf(settings') # "serif"
              /\ pc' # "load") =>
             pc = "idle" /\ event' = "resetSettings"
        /\ (event = "mount" /\ pc' = "idle" /\ savedSettings.kind = "object"
              /\ C19_FontOf(Parse(savedSettings)) = "serif") =>
             C19_FontOf(settings') = "serif"]_vars

\* the font control was activated while the font was serif already (the
\* page shows serif from the earlier activation)
C19_Witness ==
  /\ event = "handleSettingChange"
  /\ pc = "save"
  /\ C19_FontOf(settings) = "serif"
  /\ document.fontFamily = "serif"
  /\ C19_FontOf(Parse(localStorage)) = "serif"

(***************************************************************************)
(* C17  Promotional modal with a missing mount point.  When the element    *)
(* of id "__next" is absent at mount, the modal logs one warning and does  *)
(* nothing else; with or without the element it starts open, stays open    *)
(* through its mount effect and the two order buttons, can be closed while *)
(* it is open, is closed by a close action, and once closed is not opened  *)
(* again by any operation of the session.                                  *)
(***************************************************************************)
\* a step within the session of the modal
C17_SameSession == orderModal.pc # "absent" /\ orderModal'.pc # "effect"

C17_ModalWithoutAppElement ==
  /\ [](orderModal.pc = "effect" =>
          orderModal.isOpen /\ orderModal.warnings = <<>>)
  /\ [](orderModal.pc = "idle" =>
          /\ Len(orderModal.warnings) = IF orderModal.appElement = "absent" THEN 1 ELSE 0
          /\ orderModal.appElementSet <=> orderModal.appElement = "present")
  /\ [](ModalRendered => ENABLED ClickModalClose /\ ENABLED RequestModalClose)
  /\ [][C17_SameSession =>
          /\ orderModal'.appElement = orderModal.appElement
          /\ orderModal.pc = "effect" => orderModal'.isOpen
          /\ ClickModalClose \/ RequestModalClose => ~orderModal'.isOpen
          /\ orderModal'.alerted # orderModal.alerted =>
               orderModal.isOpen /\ orderModal'.isOpen
          /\ ~orderModal.isOpen => ~orderModal'.isOpen
          /\ orderModal'.isOpen # orderModal.isOpen =>
               ClickModalClose \/ RequestModalClose]_vars

\* without the element: the warning was logged, an order button was used
\* while the modal stayed open, then it was closed, and the widget has
\* been used since
C17_Witness ==
  /\ orderModal.appElement = "absent"
  /\ orderModal.pc = "idle"
  /\ orderModal.warnings = <<"App element with id '__next' not found.">>
  /\ orderModal.alerted = "Order Pickup Clicked"
  /\ ~orderModal.isOpen
  /\ isOpen /\ pc = "idle" /\ Truthy(settings, "highContrast")

====
